---- MODULE Spec2Model ----
(***************************************************************************)
(* A model of the build script (build.rs) that generates the static        *)
(* keyword table phf.rs, of the inclusion of that artifact into the        *)
(* program (src/main.rs), and of the program's self-check.                 *)
(*                                                                         *)
(* Three processes share the state: the build script, the compiler that    *)
(* expands include!, and the running program.  The file system and the     *)
(* OUT_DIR environment setting are the environment.                        *)
(***************************************************************************)
EXTENDS Naturals, Sequences, FiniteSets

VARIABLES
    pairs,        \* the (key, value expression) list handed to phf_codegen::Map
    outDir,       \* the OUT_DIR environment setting seen by build script and compiler
    fs,           \* the file system: artifact path -> file
    fs0,          \* the file system as it was when this build started
    bpc,          \* position of the build script
    path,         \* build_phf's local `path`
    buf,          \* the BufWriter's buffer
    panicReason,  \* why the build script panicked, "" when it has not
    inputsRead,   \* what build_phf has read so far
    flushLost,    \* the BufWriter's flush on drop failed and the error was ignored
    tablesBuilt,  \* how many times this build has formatted the table
    builds,       \* how many builds were started
    binary,       \* the compiled program: [ok, table]
    compileStatus,\* outcome of the last compilation of src/main.rs
    ppc,          \* position of the running program
    KEYWORDS,     \* the static table in the running program's image
    result,       \* what KEYWORDS.get("loop") returned in main
    log           \* lookups made by readers: sequence of [reader, key, result]

vars == << pairs, outDir, fs, fs0, bpc, path, buf, panicReason, inputsRead,
           flushLost, tablesBuilt, builds, binary, compileStatus, ppc,
           KEYWORDS, result, log >>

buildVars == << fs, fs0, bpc, path, buf, panicReason, inputsRead, flushLost,
                tablesBuilt, builds, outDir >>
progVars == << ppc, KEYWORDS, result >>

----------------------------------------------------------------------------
(* Bounds of the model *)

MaxBuilds == 2
MaxLookups == 3
MaxPairs == 2

----------------------------------------------------------------------------
(* src/main.rs: the enumeration *)

Keyword2 == {"Loop", "Continue", "Break", "Fn", "Extern"}

\* A value expression as written in build.rs, "Keyword2::Loop": a path of
\* two segments.
ValueExpr(variant) == << "Keyword2", variant >>

\* Name resolution of a value expression against the enum declaration.
Resolves(expr) == Len(expr) = 2 /\ expr[1] = "Keyword2" /\ expr[2] \in Keyword2

VariantOf(expr) == expr[2]

----------------------------------------------------------------------------
(* build.rs: the hardcoded pair list *)

Entries_ExternAsFn ==
    << [key |-> "loop",     value |-> ValueExpr("Loop")],
       [key |-> "continue", value |-> ValueExpr("Continue")],
       [key |-> "break",    value |-> ValueExpr("Break")],
       [key |-> "fn",       value |-> ValueExpr("Fn")],
       [key |-> "extern",   value |-> ValueExpr("Fn")] >>

Entries_LoopAsContinue ==
    << [key |-> "loop",     value |-> ValueExpr("Continue")],
       [key |-> "continue", value |-> ValueExpr("Loop")],
       [key |-> "break",    value |-> ValueExpr("Break")],
       [key |-> "fn",       value |-> ValueExpr("Fn")],
       [key |-> "extern",   value |-> ValueExpr("Extern")] >>

Entries ==
    << [key |-> "loop",     value |-> ValueExpr("Loop")],
       [key |-> "continue", value |-> ValueExpr("Continue")],
       [key |-> "break",    value |-> ValueExpr("Break")],
       [key |-> "fn",       value |-> ValueExpr("Fn")],
       [key |-> "extern",   value |-> ValueExpr("Extern")] >>

\* phf_codegen::Map::build panics when two entries share a key.
NoDuplicateCheck(p) == FALSE

HasDuplicateKey(p) ==
    \E i, j \in 1..Len(p) : i # j /\ p[i].key = p[j].key

----------------------------------------------------------------------------
(* The generated text and its inclusion *)

Header == [kind |-> "static KEYWORDS =", key |-> "", value |-> << >>]
Terminator == [kind |-> ";", key |-> "", value |-> << >>]
EntryText(e) == [kind |-> "entry", key |-> e.key, value |-> e.value]

Format_DropLast(p) ==
    << Header >> \o [i \in 1..(Len(p) - 1) |-> EntryText(p[i])] \o << Terminator >>

\* writeln!("static KEYWORDS: phf::Map<&'static str, Keyword2> = \n{};\n", map)
Format(p) ==
    << Header >> \o [i \in 1..Len(p) |-> EntryText(p[i])] \o << Terminator >>

NoBinary == [ok |-> FALSE, table |-> << >>]

WellFormed(text) ==
    /\ Len(text) >= 2
    /\ text[1] = Header
    /\ text[Len(text)] = Terminator
    /\ \A i \in 2..(Len(text) - 1) :
          text[i].kind = "entry" /\ Resolves(text[i].value)

TruncatedAccepted(text) ==
    /\ Len(text) >= 1
    /\ text[1] = Header
    /\ \A i \in 2..Len(text) :
          text[i].kind = "entry" => Resolves(text[i].value)

TableOf(text) ==
    LET es == SelectSeq(text, LAMBDA t : t.kind = "entry")
    IN  [i \in 1..Len(es) |-> [key |-> es[i].key, value |-> VariantOf(es[i].value)]]

\* include!(concat!(env!("OUT_DIR"), "/phf.rs")): the item must parse and
\* its value expressions must name variants of Keyword2.
Parse_AcceptTruncated(file) ==
    IF file.exists /\ TruncatedAccepted(file.text)
    THEN [ok |-> TRUE, table |-> TableOf(file.text)]
    ELSE NoBinary

Parse(file) ==
    IF file.exists /\ WellFormed(file.text)
    THEN [ok |-> TRUE, table |-> TableOf(file.text)]
    ELSE NoBinary

----------------------------------------------------------------------------
(* Lookup *)

None == << >>
Some(v) == << v >>

Lower(s) ==
    CASE s = "LOOP" -> "loop"
      [] s = "WHILE" -> "while"
      [] OTHER -> s

get_IgnoreCase(table, k) ==
    IF \E i \in 1..Len(table) : table[i].key = Lower(k)
    THEN Some(table[CHOOSE i \in 1..Len(table) : table[i].key = Lower(k)].value)
    ELSE None

\* phf::Map::get: the entry whose key equals k exactly, if there is one.
get(table, k) ==
    IF \E i \in 1..Len(table) : table[i].key = k
    THEN Some(table[CHOOSE i \in 1..Len(table) : table[i].key = k].value)
    ELSE None

\* A lookup takes the static by shared reference: the table after it.
TableAfterGet_Evict(table, k) ==
    SelectSeq(table, LAMBDA e : e.key # k)

TableAfterGet(table, k) == table

----------------------------------------------------------------------------
(* The environment *)

Unset == "<unset>"
Dirs == {"target/a", "target/b"}

ArtifactPath_Fixed(dir) == << "target/a", "phf.rs" >>

\* Path::new(&out_dir).join("phf.rs")
ArtifactPath(dir) == << dir, "phf.rs" >>

Paths == { << d, "phf.rs" >> : d \in Dirs }
NoPath == << >>
NoFile == [exists |-> FALSE, text |-> << >>]
File(text) == [exists |-> TRUE, text |-> text]

Prefixes(text) == { SubSeq(text, 1, n) : n \in 0..(Len(text) - 1) }

----------------------------------------------------------------------------
(* Initial states *)

Environment == Dirs \cup {Unset}

InitBuild ==
    /\ outDir \in Environment
    /\ fs = [p \in Paths |-> NoFile]
    /\ fs0 = [p \in Paths |-> NoFile]
    /\ bpc = "start"
    /\ path = NoPath
    /\ buf = << >>
    /\ panicReason = ""
    /\ inputsRead = {}
    /\ flushLost = FALSE
    /\ tablesBuilt = 0
    /\ builds = 1
    /\ binary = NoBinary
    /\ compileStatus = "none"
    /\ ppc = "idle"
    /\ KEYWORDS = << >>
    /\ result = None
    /\ log = << >>

\* The repository's build: the pair list is the one written in build.rs.
Init == pairs = Entries /\ InitBuild

----------------------------------------------------------------------------
(* build.rs: main and build_phf *)

Panic(reason) ==
    /\ bpc' = "panicked"
    /\ panicReason' = reason

\* skeptic::generate_doc_tests(&["README.md"]): the call returns () and so
\* has no way to report a failure (README.md unreadable, its output not
\* writable) other than a panic.
GenerateDocTests ==
    /\ bpc = "start"
    /\ \E ok \in BOOLEAN :
          IF ok THEN bpc' = "build_phf" /\ panicReason' = panicReason
                ELSE Panic("doc tests")
    /\ UNCHANGED << pairs, outDir, fs, fs0, path, buf, inputsRead, flushLost,
                    tablesBuilt, builds, binary, compileStatus, progVars, log >>

\* env::var("OUT_DIR").unwrap_or_default(): the error is recovered from.
GetOutDir_Default ==
    /\ bpc = "build_phf"
    /\ inputsRead' = inputsRead \cup {"OUT_DIR"}
    /\ fs0' = fs
    /\ path' = IF outDir = Unset THEN << "target/a", "phf.rs" >>
               ELSE << outDir, "phf.rs" >>
    /\ bpc' = "create"
    /\ UNCHANGED << pairs, outDir, fs, buf, flushLost, tablesBuilt, builds,
                    binary, compileStatus, progVars, log, panicReason >>

\* let path = Path::new(&env::var("OUT_DIR").unwrap()).join("phf.rs");
GetOutDir ==
    /\ bpc = "build_phf"
    /\ inputsRead' = inputsRead \cup {"OUT_DIR"}
    /\ fs0' = fs
    /\ IF outDir = Unset
       THEN Panic("OUT_DIR unset") /\ path' = path
       ELSE /\ path' = ArtifactPath(outDir)
            /\ bpc' = "create"
            /\ panicReason' = panicReason
    /\ UNCHANGED << pairs, outDir, fs, buf, flushLost, tablesBuilt, builds,
                    binary, compileStatus, progVars, log >>

\* let mut file = BufWriter::new(File::create(&path).unwrap());
\* File::create truncates a file that exists.
CreateFile ==
    /\ bpc = "create"
    /\ \E ok \in BOOLEAN :
          IF ok
          THEN /\ fs' = [fs EXCEPT ![path] = File(<< >>)]
               /\ buf' = << >>
               /\ bpc' = "write"
               /\ panicReason' = panicReason
          ELSE Panic("create failed") /\ UNCHANGED << fs, buf >>
    /\ UNCHANGED << pairs, outDir, fs0, path, inputsRead, flushLost,
                    tablesBuilt, builds, binary, compileStatus, progVars, log >>

\* writeln!(&mut file, "...", Map::new().entry(..)....build()).unwrap();
\* build() is evaluated first and panics on a duplicate key; the text then
\* goes into the BufWriter's buffer, which it fits, so that no write to the
\* file happens here and the unwrap finds Ok.
WriteTable ==
    /\ bpc = "write"
    /\ inputsRead' = inputsRead \cup {"pairs"}
    /\ IF HasDuplicateKey(pairs)
       THEN Panic("duplicate key") /\ UNCHANGED << buf, tablesBuilt >>
       ELSE /\ buf' = Format(pairs)
            /\ tablesBuilt' = tablesBuilt + 1
            /\ bpc' = "drop"
            /\ panicReason' = panicReason
    /\ UNCHANGED << pairs, outDir, fs, fs0, path, flushLost, builds, binary,
                    compileStatus, progVars, log >>

\* The closing brace of build_phf drops the BufWriter, which flushes the
\* buffer to the file; an error of that flush is ignored and leaves a
\* prefix of the text in the file.  main then returns.
DropWriter ==
    /\ bpc = "drop"
    /\ \E text \in {buf} \cup Prefixes(buf) :
          /\ fs' = [fs EXCEPT ![path] = File(text)]
          /\ flushLost' = (text # buf)
    /\ buf' = << >>
    /\ bpc' = "done"
    /\ UNCHANGED << pairs, outDir, fs0, path, panicReason, inputsRead,
                    tablesBuilt, builds, binary, compileStatus, progVars, log >>

\* Cargo runs the build script again for the next build, in an environment
\* that may differ.
Rebuild ==
    /\ bpc \in {"done", "panicked"}
    /\ builds < MaxBuilds
    /\ builds' = builds + 1
    /\ outDir' \in Environment
    /\ bpc' = "start"
    /\ path' = NoPath
    /\ buf' = << >>
    /\ panicReason' = ""
    /\ inputsRead' = {}
    /\ flushLost' = FALSE
    /\ tablesBuilt' = 0
    /\ fs0' = fs
    /\ compileStatus' = "none"
    /\ UNCHANGED << pairs, fs, binary, progVars, log >>

----------------------------------------------------------------------------
(* src/main.rs *)

\* include!(concat!(env!("OUT_DIR"), "/phf.rs")); the crate is compiled only
\* after its build script has exited successfully.
Compile ==
    /\ bpc = "done"
    /\ compileStatus = "none"
    /\ LET b == IF outDir = Unset THEN NoBinary
                ELSE Parse(fs[ArtifactPath(outDir)])
       IN  /\ compileStatus' = IF b.ok THEN "ok" ELSE "error"
           /\ binary' = IF b.ok THEN b ELSE binary
    /\ UNCHANGED << pairs, buildVars, progVars, log >>

\* The program is started: the static of the executable is its KEYWORDS.
Start ==
    /\ binary.ok
    /\ ppc \in {"idle", "exited_ok", "aborted"}
    /\ ppc' = "running"
    /\ KEYWORDS' = binary.table
    /\ result' = None
    /\ log' = << >>
    /\ UNCHANGED << pairs, buildVars, binary, compileStatus >>

\* KEYWORDS.get("loop")
MainGet ==
    /\ ppc = "running"
    /\ result' = get(KEYWORDS, "loop")
    /\ KEYWORDS' = TableAfterGet(KEYWORDS, "loop")
    /\ ppc' = "asserting"
    /\ UNCHANGED << pairs, buildVars, binary, compileStatus, log >>

\* assert_eq!(.., Some(&crate::Keyword2::Loop))
MainAssert ==
    /\ ppc = "asserting"
    /\ ppc' = IF result = Some("Loop") THEN "exited_ok" ELSE "aborted"
    /\ UNCHANGED << pairs, buildVars, binary, compileStatus, KEYWORDS, result, log >>

Next ==
    \/ GenerateDocTests
    \/ GetOutDir
    \/ CreateFile
    \/ WriteTable
    \/ DropWriter
    \/ Rebuild
    \/ Compile
    \/ Start
    \/ MainGet
    \/ MainAssert

Spec == Init /\ [][Next]_vars

----------------------------------------------------------------------------
(* The build with an arbitrary pair list: what phf_codegen does with lists  *)
(* other than the one in build.rs.                                         *)

PairKeys == {"loop", "fn"}
PairValues == {ValueExpr("Loop"), ValueExpr("Fn")}

PairLists ==
    UNION { [1..n -> [key : PairKeys, value : PairValues]] : n \in 0..MaxPairs }

InitPairs == pairs \in PairLists /\ InitBuild

SpecPairs == InitPairs /\ [][Next]_vars

----------------------------------------------------------------------------
(* The program with readers: threads that look keys up in KEYWORDS while    *)
(* main runs.                                                              *)

Readers == {"r1", "r2"}

LookupKeys ==
    {"loop", "continue", "break", "fn", "extern",
     "", "while", "nonexistent", "LOOP"}

\* KEYWORDS.get(k), by reader r
ReaderGet(r, k) ==
    /\ ppc \in {"running", "asserting"}
    /\ Len(log) < MaxLookups
    /\ log' = Append(log, [reader |-> r, key |-> k, result |-> get(KEYWORDS, k)])
    /\ KEYWORDS' = TableAfterGet(KEYWORDS, k)
    /\ UNCHANGED << pairs, buildVars, binary, compileStatus, ppc, result >>

\* The state in which the build of the repository has succeeded and the
\* program has been compiled.
InitLookup ==
    /\ pairs = Entries
    /\ outDir \in Dirs
    /\ fs = [p \in Paths |-> IF p = ArtifactPath(outDir)
                             THEN File(Format(Entries)) ELSE NoFile]
    /\ fs0 = [p \in Paths |-> NoFile]
    /\ bpc = "done"
    /\ path = ArtifactPath(outDir)
    /\ buf = << >>
    /\ panicReason = ""
    /\ inputsRead = {"OUT_DIR", "pairs"}
    /\ flushLost = FALSE
    /\ tablesBuilt = 1
    /\ builds = 1
    /\ binary = Parse(File(Format(Entries)))
    /\ compileStatus = "ok"
    /\ ppc = "idle"
    /\ KEYWORDS = << >>
    /\ result = None
    /\ log = << >>

NextLookup ==
    \/ Start
    \/ MainGet
    \/ MainAssert
    \/ \E r \in Readers, k \in LookupKeys : ReaderGet(r, k)

SpecLookup == InitLookup /\ [][NextLookup]_vars

----------------------------------------------------------------------------
(* Properties *)

Registered == {"loop", "continue", "break", "fn", "extern"}

Expected(k) ==
    CASE k = "loop" -> "Loop"
      [] k = "continue" -> "Continue"
      [] k = "break" -> "Break"
      [] k = "fn" -> "Fn"
      [] k = "extern" -> "Extern"

Started == ppc \in {"running", "asserting", "exited_ok", "aborted"}
Looked == ppc \in {"asserting", "exited_ok", "aborted"}

SharesKey(p) == \E i, j \in 1..Len(p) : i < j /\ p[i].key = p[j].key

\* The table of the repository's build, as the five pairs the spec lists.
FiveEntryTable ==
    << [key |-> "loop", value |-> "Loop"],
       [key |-> "continue", value |-> "Continue"],
       [key |-> "break", value |-> "Break"],
       [key |-> "fn", value |-> "Fn"],
       [key |-> "extern", value |-> "Extern"] >>

\* C1: on the table the build produces, lookup of each of the five
\* registered keys returns its Keyword value and never absent; the lookup
\* of "loop" that main performs returns Some(Loop).
C1_RegisteredKeysFound ==
    /\ binary.ok =>
          \A k \in Registered : get(binary.table, k) = Some(Expected(k))
    /\ Started =>
          \A k \in Registered : get(KEYWORDS, k) = Some(Expected(k))
    /\ Looked => result = Some("Loop")

C1_Witness ==
    /\ ppc = "asserting"
    /\ result = Some("Loop")
    /\ get(KEYWORDS, "extern") = Some("Extern")

\* C2: every lookup of a string that is not one of the five registered keys
\* returns absent, whoever makes it.
C2_OtherKeysAbsent ==
    /\ Started =>
          \A k \in LookupKeys \ Registered : get(KEYWORDS, k) = None
    /\ \A i \in 1..Len(log) :
          log[i].key \notin Registered => log[i].result = None

C2_Witness ==
    \E i, j \in 1..Len(log) :
        /\ log[i].key = "LOOP" /\ log[i].result = None
        /\ log[j].key = ""     /\ log[j].result = None

\* C3: the run looks "loop" up and ends in success exactly when the result
\* is Some(Loop), in abnormal termination otherwise; with the table of the
\* build step no run ends in abnormal termination.
C3_SelfCheckOutcome ==
    /\ Looked => result = get(KEYWORDS, "loop")
    /\ ppc = "exited_ok" => result = Some("Loop")
    /\ ppc = "aborted" => result # Some("Loop")
    /\ ppc # "aborted"

C3_Witness == ppc = "exited_ok" /\ result = Some("Loop") /\ compileStatus = "ok"

\* C4: when two entries of the pair list share a key the build script
\* panics in the construction, no table is formatted, no file holds a
\* table, nothing is compiled and no lookup takes place.
C4_DuplicateKeyFailsBuild ==
    SharesKey(pairs) =>
        /\ bpc \notin {"drop", "done"}
        /\ bpc = "panicked" /\ "pairs" \in inputsRead => panicReason = "duplicate key"
        /\ tablesBuilt = 0
        /\ \A p \in Paths : ~Parse(fs[p]).ok
        /\ binary = NoBinary
        /\ compileStatus = "none"
        /\ ppc = "idle" /\ result = None /\ KEYWORDS = << >>

C4_Witness ==
    /\ Len(pairs) = 2
    /\ pairs[1].key = "loop" /\ pairs[2].key = "loop"
    /\ path \in Paths
    /\ bpc = "panicked"
    /\ panicReason = "duplicate key"
    /\ fs[path] = File(<< >>)

\* C5: the compiled table has exactly five entries with pairwise distinct
\* keys, the five registered ones, and as many entries as Keyword2 has
\* values, each value being the value of exactly one entry.
C5_ExactlyFiveEntries ==
    binary.ok =>
        LET t == binary.table
        IN  /\ Len(t) = 5
            /\ \A i, j \in 1..Len(t) : t[i].key = t[j].key => i = j
            /\ { t[i].key : i \in 1..Len(t) } = Registered
            /\ Len(t) = Cardinality(Keyword2)
            /\ \A v \in Keyword2 :
                  Cardinality({ i \in 1..Len(t) : t[i].value = v }) = 1

C5_Witness == binary.ok /\ compileStatus = "ok" /\ Len(binary.table) = 5

\* C6 as stated: the build fails only by a duplicate key, the run only by
\* the assertion, no other step fails and no error is suppressed.
C6_OnlyTwoErrors ==
    /\ bpc = "panicked" => panicReason = "duplicate key"
    /\ compileStatus # "error"
    /\ ~flushLost

\* C6 amended: the build script panics only where doc-test generation
\* fails, OUT_DIR is unset, the file cannot be created or a key is
\* duplicated, and a panic is fatal: nothing is compiled from that build.
\* The one error that is ignored is that of the flush when the BufWriter is
\* dropped; it leaves a truncated artifact and the compilation of the
\* program fails, which is the only way it fails.  The run fails only by
\* the assertion.
C6_FailurePoints ==
    /\ bpc = "panicked" =>
          /\ panicReason \in
                {"doc tests", "OUT_DIR unset", "create failed", "duplicate key"}
          /\ compileStatus = "none"
          /\ panicReason = "OUT_DIR unset" <=> ("OUT_DIR" \in inputsRead /\ outDir = Unset)
          /\ panicReason = "duplicate key" => SharesKey(pairs)
    /\ bpc # "panicked" => panicReason = ""
    /\ bpc \in {"create", "write", "drop", "done"} => outDir # Unset
    /\ flushLost => bpc = "done" /\ fs[path] # File(Format(pairs))
    /\ compileStatus = "error" <=> (flushLost /\ compileStatus # "none")
    /\ ppc = "aborted" => result # Some("Loop")

C6_Witness ==
    /\ builds = 2
    /\ bpc = "panicked" /\ panicReason = "create failed"
    /\ binary.ok

\* C7 as stated: build_phf reads nothing but the pair list and changes
\* nothing but the artifact.
C7_NoOtherInputs ==
    /\ inputsRead \subseteq {"pairs"}
    /\ \A p \in Paths : p # path => fs[p] = fs0[p]

\* C7 amended: build_phf reads the pair list and the OUT_DIR setting, which
\* decides where the artifact goes and whether the step fails; the text it
\* writes depends on the pair list alone, and it changes no file but
\* OUT_DIR/phf.rs.
C7_ReadsOutDirOnly ==
    /\ inputsRead \subseteq {"pairs", "OUT_DIR"}
    /\ \A p \in Paths : p # << outDir, "phf.rs" >> => fs[p] = fs0[p]
    /\ outDir = Unset => fs = fs0
    /\ bpc = "done" /\ ~flushLost =>
          fs[<< outDir, "phf.rs" >>] = File(Format(pairs))

C7_Witness ==
    /\ bpc = "done" /\ ~flushLost
    /\ outDir = "target/b"
    /\ fs[<< "target/b", "phf.rs" >>] = File(Format(Entries))
    /\ fs[<< "target/a", "phf.rs" >>] = File(Format(Entries))
    /\ fs0[<< "target/a", "phf.rs" >>] = File(Format(Entries))

\* C8: each build formats the table once; the program is compiled only from
\* a fully written artifact of a finished build; the table of the running
\* program is the complete table from its start on, also while a later
\* build rewrites the artifact.
C8_BuiltOnceBeforeRun ==
    /\ tablesBuilt <= 1
    /\ bpc \in {"drop", "done"} <=> tablesBuilt = 1
    /\ compileStatus = "ok" =>
          /\ bpc = "done"
          /\ fs[<< outDir, "phf.rs" >>] = File(Format(pairs))
    /\ binary.ok => binary.table = FiveEntryTable
    /\ Started => KEYWORDS = FiveEntryTable

C8_Witness ==
    /\ ppc = "running"
    /\ KEYWORDS = FiveEntryTable
    /\ builds = 2
    /\ bpc = "write"
    /\ fs[path] = File(<< >>)

\* C9: after any sequence of lookups by main and by the readers the table
\* is the one the build produced, and each reader got what a lookup on that
\* table gives.
C9_TableNeverMutated ==
    /\ Started => KEYWORDS = FiveEntryTable /\ KEYWORDS = binary.table
    /\ \A i \in 1..Len(log) :
          log[i].result = get(FiveEntryTable, log[i].key)
    /\ Looked => result = get(FiveEntryTable, "loop")

C9_Witness ==
    /\ Len(log) = 3
    /\ log[1].reader = "r1" /\ log[2].reader = "r2" /\ log[3].reader = "r1"
    /\ log[1].key = "loop" /\ log[2].key = "loop" /\ log[3].key = "break"
    /\ ppc = "exited_ok"

\* C10: every lookup returns absent or a Keyword value, and two lookups of
\* the same key in one run return the same result, whatever was looked up
\* in between.
C10_LookupDeterministic ==
    /\ \A i \in 1..Len(log) :
          log[i].result \in {None} \cup { Some(v) : v \in Keyword2 }
    /\ \A i, j \in 1..Len(log) :
          log[i].key = log[j].key => log[i].result = log[j].result
    /\ \A i \in 1..Len(log) :
          Looked /\ log[i].key = "loop" => log[i].result = result

C10_Witness ==
    /\ Len(log) = 3
    /\ log[1].key = "fn" /\ log[2].key = "while" /\ log[3].key = "fn"
    /\ log[1].result = Some("Fn") /\ log[2].result = None

====
